---- MODULE Spec2Model ----
(***************************************************************************)
(* A model of the step-by-step tutor: the step parser of the Solution      *)
(* page (parseSteps), the validate-answer edge function and the Solution   *)
(* page's answer submission with its persisted progress.                   *)
(*                                                                         *)
(* Texts are sequences of one-character strings, so that the regular       *)
(* expressions, trim, split and the JSON reader work on characters.        *)
(***************************************************************************)
EXTENDS Integers, Sequences, FiniteSets, Bags, TLC

VARIABLES
  srcLines,       \* parser input as it was put together, line by line
  solutionText,   \* parseSteps' argument
  parsedSteps,    \* parseSteps' result
  parsed,         \* whether parseSteps has run
  request,        \* validate-answer: the request being served
  apiKeySet,      \* validate-answer: whether LOVABLE_API_KEY is set
  gateway,        \* validate-answer: what the LLM gateway answers when called
  fnPc,           \* validate-answer: where the handler stands
  response,       \* validate-answer: the response returned
  fnLog,          \* validate-answer: the work done so far, in order
  forwarded,      \* validate-answer: the inputs sent to the LLM gateway
  page,           \* the page the user is on
  nav,            \* location.state of the Solution page
  ui,             \* the Solution page's component state
  gen,            \* generateSolution: where it stands
  inflight,       \* handleSubmitAnswer: the validate-answer call awaited
  writes,         \* saveProgress updates sent and not yet applied
  toast,          \* the title of the last toast shown
  history,        \* the question_history table
  guide,          \* generate-study-guide: the request served and what came of it
  grader,         \* the local heuristic grader: its inputs and its verdict
  hist,           \* the History page's component state
  stats           \* the Home page's statistics

parseVars == <<srcLines, solutionText, parsedSteps, parsed>>

fnVars == <<request, apiKeySet, gateway, fnPc, response, fnLog, forwarded>>

pageVars == <<page, nav, ui, gen, inflight, writes, toast, history>>

auxVars == <<guide, grader, hist, stats>>

vars == <<parseVars, fnVars, pageVars, auxVars>>

----------------------------------------------------------------------------
(* Characters and strings                                                  *)

\* White space as String.prototype.trim and the regex class \s see it
\* (restricted to the characters the inputs are built from).
WhiteSpace == {" ", "\t", "\n", "\r"}

Digits == {"0", "1", "2", "3", "4", "5", "6", "7", "8", "9"}

UpperToLower ==
  ("A" :> "a") @@ ("C" :> "c") @@ ("E" :> "e") @@ ("H" :> "h") @@ ("N" :> "n") @@
  ("O" :> "o") @@ ("P" :> "p") @@ ("R" :> "r") @@ ("S" :> "s") @@ ("T" :> "t") @@
  ("U" :> "u") @@ ("W" :> "w")

\* String.prototype.toLowerCase on one character.
LowerChar(c) == IF c \in DOMAIN UpperToLower THEN UpperToLower[c] ELSE c

toLowerCase(s) == [i \in 1..Len(s) |-> LowerChar(s[i])]

RECURSIVE LeadingSpaces(_, _)
LeadingSpaces(s, i) ==
  IF i <= Len(s) /\ s[i] \in WhiteSpace THEN LeadingSpaces(s, i + 1) ELSE i - 1

RECURSIVE TrailingSpaces(_, _)
TrailingSpaces(s, j) ==
  IF j >= 1 /\ s[j] \in WhiteSpace THEN TrailingSpaces(s, j - 1) ELSE Len(s) - j

\* String.prototype.trim
trim(s) ==
  LET a == LeadingSpaces(s, 1)
      b == TrailingSpaces(s, Len(s))
  IN IF a = Len(s) THEN <<>> ELSE SubSeq(s, a + 1, Len(s) - b)

\* String.prototype.split on a one-character separator
RECURSIVE split(_, _)
split(s, sep) ==
  IF \E i \in 1..Len(s) : s[i] = sep
  THEN LET i == CHOOSE j \in 1..Len(s) :
                  s[j] = sep /\ \A h \in 1..(j - 1) : s[h] # sep
       IN <<SubSeq(s, 1, i - 1)>> \o split(SubSeq(s, i + 1, Len(s)), sep)
  ELSE <<s>>

\* String.prototype.includes
includes(s, needle) ==
  \E i \in 1..(Len(s) - Len(needle) + 1) :
    SubSeq(s, i, i + Len(needle) - 1) = needle

RECURSIVE JoinLines(_)
JoinLines(ls) ==
  IF Len(ls) = 0 THEN <<>>
  ELSE IF Len(ls) = 1 THEN ls[1]
  ELSE ls[1] \o <<"\n">> \o JoinLines(Tail(ls))

----------------------------------------------------------------------------
(* A backtracking matcher for the regular expressions of the source: a     *)
(* pattern has the i flag or not (ignoreCase) and a sequence of elements,   *)
(* each a literal character ("lit"), an optional literal ("opt", c?), or a *)
(* greedy repetition of a character class ("plus", one or more; "star",    *)
(* zero or more), which may capture.                                       *)

Lit(c) == [t |-> "lit", c |-> c, cls |-> "", grp |-> 0]
Opt(c) == [t |-> "opt", c |-> c, cls |-> "", grp |-> 0]
Plus(cls, grp) == [t |-> "plus", c |-> "", cls |-> cls, grp |-> grp]
Star(cls) == [t |-> "star", c |-> "", cls |-> cls, grp |-> 0]

InClass(c, cls) ==
  CASE cls = "digit" -> c \in Digits          \* \d
    [] cls = "space" -> c \in WhiteSpace      \* \s
    [] cls = "notpipe" -> c # "|"             \* [^|]
    [] cls = "notnl" -> c # "\n"              \* [^\n]

\* the length of the longest run of characters of class cls from position i
RunLen(s, i, cls) ==
  (CHOOSE j \in i..(Len(s) + 1) : j = Len(s) + 1 \/ ~InClass(s[j], cls)) - i

NoMatch == [ok |-> FALSE, end |-> 0, caps |-> <<>>]

\* MatchFrom(re, s, k, i): elements k.. of re matched at position i of s, the
\* alternatives taken in the engine's order; end is the position after the
\* match. A greedy repetition tries its longest run first and gives back one
\* character at a time, so it settles on the largest count with which the
\* rest of the pattern matches.
RECURSIVE MatchFrom(_, _, _, _)
MatchFrom(re, s, k, i) ==
  IF k > Len(re.els) THEN [ok |-> TRUE, end |-> i, caps |-> <<>>]
  ELSE LET e == re.els[k] IN
    CASE e.t = "lit" ->
           IF i <= Len(s) /\ (IF re.ignoreCase THEN LowerChar(s[i]) = LowerChar(e.c)
                                               ELSE s[i] = e.c)
           THEN MatchFrom(re, s, k + 1, i + 1)
           ELSE NoMatch
      [] e.t = "opt" ->
           IF i <= Len(s) /\ s[i] = e.c
           THEN LET r == MatchFrom(re, s, k + 1, i + 1)
                IN IF r.ok THEN r ELSE MatchFrom(re, s, k + 1, i)
           ELSE MatchFrom(re, s, k + 1, i)
      [] e.t \in {"plus", "star"} ->
           LET least == IF e.t = "plus" THEN 1 ELSE 0
               most == RunLen(s, i, e.cls)
               tries == {[n |-> n, r |-> MatchFrom(re, s, k + 1, i + n)] : n \in least..most}
               oks == {x \in tries : x.r.ok}
           IN IF oks = {} THEN NoMatch
              ELSE LET x == CHOOSE y \in oks : \A z \in oks : z.n <= y.n IN
                   IF e.grp > 0
                   THEN [x.r EXCEPT !.caps = (e.grp :> SubSeq(s, i, i + x.n - 1)) @@ @]
                   ELSE x.r

\* RegExp.prototype.exec with the g flag, called until it returns null: the
\* leftmost match at or after lastIndex, then again from the match's end.
RECURSIVE execAll(_, _, _)
execAll(re, s, lastIndex) ==
  LET i == CHOOSE j \in lastIndex..(Len(s) + 1) :
             j = Len(s) + 1 \/ MatchFrom(re, s, 1, j).ok
      m == MatchFrom(re, s, 1, i)
  IN IF i = Len(s) + 1 THEN <<>> ELSE <<m>> \o execAll(re, s, m.end)

----------------------------------------------------------------------------
(* parseSteps                                                              *)

\* /Step \d+:([^|]+)\|?\s*Hint:([^|]+)\|?\s*Answer:([^\n]+)/gi
stepRegex ==
  [ignoreCase |-> TRUE,
   els |->
     <<Lit("S"), Lit("t"), Lit("e"), Lit("p"), Lit(" "), Plus("digit", 0), Lit(":"),
       Plus("notpipe", 1),
       Opt("|"), Star("space"),
       Lit("H"), Lit("i"), Lit("n"), Lit("t"), Lit(":"),
       Plus("notpipe", 2),
       Opt("|"), Star("space"),
       Lit("A"), Lit("n"), Lit("s"), Lit("w"), Lit("e"), Lit("r"), Lit(":"),
       Plus("notnl", 3)>>]

\* "Think about the mathematical principles involved."
FallbackHint ==
  <<"T", "h", "i", "n", "k", " ", "a", "b", "o", "u", "t", " ", "t", "h", "e", " ",
    "m", "a", "t", "h", "e", "m", "a", "t", "i", "c", "a", "l", " ",
    "p", "r", "i", "n", "c", "i", "p", "l", "e", "s", " ",
    "i", "n", "v", "o", "l", "v", "e", "d", ".">>

\* "Check your work carefully"
FallbackAnswer ==
  <<"C", "h", "e", "c", "k", " ", "y", "o", "u", "r", " ", "w", "o", "r", "k", " ",
    "c", "a", "r", "e", "f", "u", "l", "l", "y">>

\* FallbackCap off by one (idx < 3)
FallbackCap_three == 4 - 1

\* the cap of the fallback: idx < 4
FallbackCap == 4

\* MatchedSteps with the answer pushed as captured, without trim()
MatchedSteps_untrimmed(solutionTextArg) ==
  LET ms == execAll(stepRegex, solutionTextArg, 1)
  IN [j \in 1..Len(ms) |->
        [instruction |-> trim(ms[j].caps[1]),
         hint |-> trim(ms[j].caps[2]),
         answer |-> ms[j].caps[3]]]

\* the steps pushed by the exec loop
MatchedSteps(solutionTextArg) ==
  LET ms == execAll(stepRegex, solutionTextArg, 1)
  IN [j \in 1..Len(ms) |->
        [instruction |-> trim(ms[j].caps[1]),
         hint |-> trim(ms[j].caps[2]),
         answer |-> trim(ms[j].caps[3])]]

\* NonEmptyLines filtering on the line itself: filter(l => l)
NonEmptyLines_untrimmed(solutionTextArg) ==
  SelectSeq(split(solutionTextArg, "\n"), LAMBDA l : l # <<>>)

\* solutionText.split('\n').filter(l => l.trim())
NonEmptyLines(solutionTextArg) ==
  SelectSeq(split(solutionTextArg, "\n"), LAMBDA l : trim(l) # <<>>)

\* the steps pushed by the fallback's forEach
FallbackSteps(solutionTextArg) ==
  LET lines == NonEmptyLines(solutionTextArg)
      n == IF Len(lines) < FallbackCap THEN Len(lines) ELSE FallbackCap
  IN [idx \in 1..n |->
        [instruction |-> lines[idx],
         hint |-> FallbackHint,
         answer |-> FallbackAnswer]]

parseSteps_fallbackOnEmptyField(solutionTextArg) ==
  LET matched == MatchedSteps(solutionTextArg)
  IN IF Len(matched) = 0 \/ \E j \in 1..Len(matched) : matched[j].instruction = <<>>
     THEN FallbackSteps(solutionTextArg) ELSE matched

\* parseSteps: the exec loop, then the fallback when it pushed nothing
parseSteps(solutionTextArg) ==
  LET matched == MatchedSteps(solutionTextArg)
  IN IF Len(matched) = 0 THEN FallbackSteps(solutionTextArg) ELSE matched

----------------------------------------------------------------------------
(* validate-answer: cleaning and reading the model's message               *)

\* String.prototype.replace(re, '') with a g pattern: every match, leftmost
\* first and not overlapping, is removed
RECURSIVE removeAll(_, _, _)
removeAll(re, s, from) ==
  LET i == CHOOSE j \in from..(Len(s) + 1) :
             j = Len(s) + 1 \/ MatchFrom(re, s, 1, j).ok
  IN IF i = Len(s) + 1 THEN SubSeq(s, from, Len(s))
     ELSE SubSeq(s, from, i - 1) \o removeAll(re, s, MatchFrom(re, s, 1, i).end)

\* the backquote character, which a string of this language cannot hold
BackTick == "BACKTICK"

fenceJsonRegex_upper ==
  [ignoreCase |-> FALSE,
   els |-> <<Lit(BackTick), Lit(BackTick), Lit(BackTick), Lit("J"), Lit("S"), Lit("O"), Lit("N"),
             Opt("\n")>>]

\* /```json\n?/g
fenceJsonRegex ==
  [ignoreCase |-> FALSE,
   els |-> <<Lit(BackTick), Lit(BackTick), Lit(BackTick), Lit("j"), Lit("s"), Lit("o"), Lit("n"),
             Opt("\n")>>]

\* /```\n?/g
fenceRegex ==
  [ignoreCase |-> FALSE, els |-> <<Lit(BackTick), Lit(BackTick), Lit(BackTick), Opt("\n")>>]

\* aiResponse.replace(/```json\n?/g, '').replace(/```\n?/g, '').trim()
cleanedResponse(aiResponseArg) ==
  trim(removeAll(fenceRegex, removeAll(fenceJsonRegex, aiResponseArg, 1), 1))

\* JSON values
JNull == [t |-> "null"]
JBool(b) == [t |-> "boolean", b |-> b]
JNumber(digits) == [t |-> "number", n |-> digits]
JString(chars) == [t |-> "string", s |-> chars]
JObject(fields) == [t |-> "object", fields |-> fields]

JsonFail == [ok |-> FALSE, end |-> 0, val |-> JNull]

\* JSON white space
JsonSkip(s, i) ==
  CHOOSE j \in i..(Len(s) + 1) : j = Len(s) + 1 \/ s[j] \notin {" ", "\t", "\n", "\r"}

StartsAt(s, i, word) ==
  i + Len(word) - 1 <= Len(s) /\ SubSeq(s, i, i + Len(word) - 1) = word

\* a string token at position i (s[i] is the opening quote). The texts read
\* here hold no backslash, so escapes do not arise; a control character
\* inside a string is a syntax error.
JsonString(s, i) ==
  LET close == CHOOSE j \in (i + 1)..(Len(s) + 1) : j = Len(s) + 1 \/ s[j] = "\""
      body == SubSeq(s, i + 1, close - 1)
  IN IF close = Len(s) + 1
        \/ \E h \in 1..Len(body) : body[h] \in {"\n", "\r", "\t", "\\"}
     THEN JsonFail
     ELSE [ok |-> TRUE, end |-> close + 1, val |-> JString(body)]

\* JSON.parse's grammar on the characters the model's messages are made of:
\* objects, strings, numbers written with digits only, true, false and null
\* ('[' and '-' do not occur). JsonValue reads a value at position i after
\* white space; JsonMembers reads the members of an object up to its '}'.
RECURSIVE JsonValue(_, _)
RECURSIVE JsonMembers(_, _, _)
JsonValue(s, i) ==
  LET j == JsonSkip(s, i) IN
  IF j > Len(s) THEN JsonFail
  ELSE IF s[j] = "{" THEN
         (IF JsonSkip(s, j + 1) <= Len(s) /\ s[JsonSkip(s, j + 1)] = "}"
          THEN [ok |-> TRUE, end |-> JsonSkip(s, j + 1) + 1, val |-> JObject(<<>>)]
          ELSE JsonMembers(s, j + 1, <<>>))
  ELSE IF s[j] = "\"" THEN JsonString(s, j)
  ELSE IF StartsAt(s, j, <<"t", "r", "u", "e">>)
       THEN [ok |-> TRUE, end |-> j + 4, val |-> JBool(TRUE)]
  ELSE IF StartsAt(s, j, <<"f", "a", "l", "s", "e">>)
       THEN [ok |-> TRUE, end |-> j + 5, val |-> JBool(FALSE)]
  ELSE IF StartsAt(s, j, <<"n", "u", "l", "l">>)
       THEN [ok |-> TRUE, end |-> j + 4, val |-> JNull]
  ELSE IF s[j] \in Digits
       THEN LET n == RunLen(s, j, "digit")
            IN IF s[j] = "0" /\ n > 1 THEN JsonFail
               ELSE [ok |-> TRUE, end |-> j + n, val |-> JNumber(SubSeq(s, j, j + n - 1))]
  ELSE JsonFail

JsonMembers(s, i, fields) ==
  LET k == JsonSkip(s, i)
      key == IF k <= Len(s) /\ s[k] = "\"" THEN JsonString(s, k) ELSE JsonFail
      colon == JsonSkip(s, key.end)
      v == IF key.ok /\ colon <= Len(s) /\ s[colon] = ":"
           THEN JsonValue(s, colon + 1) ELSE JsonFail
      next == JsonSkip(s, v.end)
      \* a repeated key keeps its last value
      more == (key.val.s :> v.val) @@ fields
  IN IF ~v.ok \/ next > Len(s) THEN JsonFail
     ELSE IF s[next] = "}" THEN [ok |-> TRUE, end |-> next + 1, val |-> JObject(more)]
     ELSE IF s[next] = "," THEN JsonMembers(s, next + 1, more)
     ELSE JsonFail

\* JSON.parse(text): ok is FALSE where it throws a SyntaxError
JSONparse(text) ==
  LET r == JsonValue(text, 1)
  IN IF r.ok /\ JsonSkip(text, r.end) > Len(text) THEN r ELSE JsonFail

\* '"correct": true' and '"correct":true'
Needles ==
  {<<"\"", "c", "o", "r", "r", "e", "c", "t", "\"", ":", " ", "t", "r", "u", "e">>,
   <<"\"", "c", "o", "r", "r", "e", "c", "t", "\"", ":", "t", "r", "u", "e">>}

KeyCorrect == <<"c", "o", "r", "r", "e", "c", "t">>
KeyFeedback == <<"f", "e", "e", "d", "b", "a", "c", "k">>

\* "Answer evaluated"
AnswerEvaluated ==
  <<"A", "n", "s", "w", "e", "r", " ", "e", "v", "a", "l", "u", "a", "t", "e", "d">>

FallbackResult_caseSensitive(aiResponseArg) ==
  LET isCorrect == \E needle \in Needles : includes(aiResponseArg, needle)
  IN JObject((KeyCorrect :> JBool(isCorrect)) @@ (KeyFeedback :> JString(AnswerEvaluated)))

\* the catch block of the parse: isCorrect and the fixed feedback
FallbackResult(aiResponseArg) ==
  LET isCorrect == \E needle \in Needles : includes(toLowerCase(aiResponseArg), needle)
  IN JObject((KeyCorrect :> JBool(isCorrect)) @@ (KeyFeedback :> JString(AnswerEvaluated)))

\* result, from the model's message text
GradingResult(aiResponseArg) ==
  LET parsedJson == JSONparse(cleanedResponse(aiResponseArg))
  IN IF parsedJson.ok THEN parsedJson.val ELSE FallbackResult(aiResponseArg)

----------------------------------------------------------------------------
(* validate-answer: the request, its schema and the handler                *)

\* A string of a request body as the schema sees it: its length, split into
\* the white space before its first and after its last other character
\* (lead, trail) and what lies between (core).
Str(lead, core, trail) == [type |-> "string", lead |-> lead, core |-> core, trail |-> trail]
Absent == [type |-> "absent", lead |-> 0, core |-> 0, trail |-> 0]
NotAString == [type |-> "number", lead |-> 0, core |-> 0, trail |-> 0]

Length(f) == f.lead + f.core + f.trail

\* z.string().trim(): the value the later checks and the handler see
ZodTrim(f) == Str(0, f.core, 0)

\* requestSchema's limits
MaxUserAnswer == 1000
MaxExpectedAnswer == 500
MaxStepInstruction == 1000
MaxProblemContext == 500

SchemaAccepts_untrimmedOnly(body) == body.kind = "object" /\ body.userAnswer.type = "string"

\* requestSchema.safeParse(rawBody).success
SchemaAccepts(body) ==
  /\ body.kind = "object"
  /\ body.userAnswer.type = "string"
  /\ Length(ZodTrim(body.userAnswer)) <= MaxUserAnswer
  /\ body.expectedAnswer.type = "string"
  /\ Length(body.expectedAnswer) <= MaxExpectedAnswer
  /\ body.stepInstruction.type = "string"
  /\ Length(body.stepInstruction) <= MaxStepInstruction
  /\ \/ body.problemContext.type = "absent"
     \/ /\ body.problemContext.type = "string"
        /\ Length(body.problemContext) <= MaxProblemContext

\* parseResult.data
SchemaData(body) == [body EXCEPT !.userAnswer = ZodTrim(@)]

\* a response: its status and its body, which for an error is {error: message}
NoResponse == [status |-> 0, body |-> JNull]

\* serve's handler up to its first await: the preflight answer, the API key,
\* the Authorization header, then auth.getUser() is started
FnReceive ==
  /\ fnPc = "start"
  /\ IF request.method = "OPTIONS"
     THEN /\ response' = [status |-> 200, body |-> JNull]
          /\ fnPc' = "done"
          /\ fnLog' = fnLog
     ELSE IF ~apiKeySet
     THEN /\ response' = [status |-> 500, body |-> [t |-> "error", error |-> "LOVABLE_API_KEY not configured"]]
          /\ fnPc' = "done"
          /\ fnLog' = fnLog
     ELSE IF request.auth = "none"
     THEN /\ response' = [status |-> 401, body |-> [t |-> "error", error |-> "Missing authorization header"]]
          /\ fnPc' = "done"
          /\ fnLog' = fnLog
     ELSE /\ response' = response
          /\ fnPc' = "getUser"
          /\ fnLog' = Append(fnLog, "getUser")
  /\ UNCHANGED <<request, apiKeySet, gateway, forwarded, parseVars, pageVars, auxVars>>

FnGetUser_unchecked ==
  /\ fnPc = "getUser"
  /\ fnPc' = "json"
  /\ fnLog' = Append(fnLog, "json")
  /\ UNCHANGED <<request, apiKeySet, gateway, response, forwarded, parseVars, pageVars, auxVars>>

\* auth.getUser() has answered; with a user, req.json() is started
FnGetUser ==
  /\ fnPc = "getUser"
  /\ IF request.auth # "user"
     THEN /\ response' = [status |-> 401, body |-> [t |-> "error", error |-> "Unauthorized"]]
          /\ fnPc' = "done"
          /\ fnLog' = fnLog
     ELSE /\ response' = response
          /\ fnPc' = "json"
          /\ fnLog' = Append(fnLog, "json")
  /\ UNCHANGED <<request, apiKeySet, gateway, forwarded, parseVars, pageVars, auxVars>>

FnReadBody_unvalidated ==
  /\ fnPc = "json"
  /\ IF request.body.kind = "malformed"
     THEN /\ response' = [status |-> 500, body |-> [t |-> "error", error |-> "SyntaxError"]]
          /\ fnPc' = "done"
          /\ fnLog' = fnLog
          /\ forwarded' = forwarded
     ELSE /\ response' = response
          /\ fnPc' = "fetch"
          /\ fnLog' = fnLog \o <<"fetch", "safeParse">>
          /\ forwarded' = Append(forwarded, request.body)
  /\ UNCHANGED <<request, apiKeySet, gateway, parseVars, pageVars, auxVars>>

\* req.json() has settled; the body is validated and, if valid, the prompts
\* are built from parseResult.data and the gateway is called
FnReadBody ==
  /\ fnPc = "json"
  /\ IF request.body.kind = "malformed"
     THEN /\ response' = [status |-> 500, body |-> [t |-> "error", error |-> "SyntaxError"]]
          /\ fnPc' = "done"
          /\ fnLog' = fnLog
          /\ forwarded' = forwarded
     ELSE IF ~SchemaAccepts(request.body)
     THEN /\ response' = [status |-> 400, body |-> [t |-> "error", error |-> "Invalid input"]]
          /\ fnPc' = "done"
          /\ fnLog' = Append(fnLog, "safeParse")
          /\ forwarded' = forwarded
     ELSE /\ response' = response
          /\ fnPc' = "fetch"
          /\ fnLog' = fnLog \o <<"safeParse", "fetch">>
          /\ forwarded' = Append(forwarded, SchemaData(request.body))
  /\ UNCHANGED <<request, apiKeySet, gateway, parseVars, pageVars, auxVars>>

FnGatewayAnswers_retries ==
  /\ fnPc = "fetch"
  /\ IF gateway.kind = "text"
     THEN /\ response' = [status |-> 200, body |-> GradingResult(gateway.content)]
          /\ fnLog' = Append(fnLog, "parse")
          /\ fnPc' = "done"
          /\ forwarded' = forwarded
     ELSE IF Len(forwarded) < 2
     THEN /\ response' = response
          /\ fnLog' = Append(fnLog, "fetch")
          /\ fnPc' = "fetch"
          /\ forwarded' = Append(forwarded, forwarded[1])
     ELSE /\ response' = [status |-> 500, body |-> [t |-> "error", error |-> gateway.kind]]
          /\ fnLog' = fnLog
          /\ fnPc' = "done"
          /\ forwarded' = forwarded
  /\ UNCHANGED <<request, apiKeySet, gateway, parseVars, pageVars, auxVars>>

\* fetch() has settled: a rejected fetch, a status that is not ok, a body
\* that is not JSON and a body without choices[0].message end in the outer
\* catch; a text content is parsed into result; on a content that is null
\* aiResponse.replace throws inside the try, aiResponse.toLowerCase throws
\* inside its catch, and the outer catch answers
FnGatewayAnswers ==
  /\ fnPc = "fetch"
  /\ IF gateway.kind = "text"
     THEN /\ response' = [status |-> 200, body |-> GradingResult(gateway.content)]
          /\ fnLog' = Append(fnLog, "parse")
     ELSE IF gateway.kind = "null_content"
     THEN /\ response' = [status |-> 500, body |-> [t |-> "error", error |-> "TypeError"]]
          /\ fnLog' = Append(fnLog, "parse")
     ELSE /\ response' = [status |-> 500, body |-> [t |-> "error", error |-> gateway.kind]]
          /\ fnLog' = fnLog
  /\ fnPc' = "done"
  /\ UNCHANGED <<request, apiKeySet, gateway, forwarded, parseVars, pageVars, auxVars>>

\* no request is being served
FnIdle ==
  /\ request = [method |-> "none"]
  /\ apiKeySet = TRUE
  /\ gateway = [kind |-> "none"]
  /\ fnPc = "idle"
  /\ response = NoResponse
  /\ fnLog = <<>>
  /\ forwarded = <<>>

\* no page is open
PageIdle ==
  /\ page = "none"
  /\ nav = [imageUrl |-> "none"]
  /\ ui = [loading |-> FALSE]
  /\ gen = [pc |-> "none"]
  /\ inflight = [pc |-> "none"]
  /\ writes = EmptyBag
  /\ toast = "none"
  /\ history = <<>>

\* no study guide is being generated and nothing is being graded locally
AuxIdle ==
  /\ guide = [pc |-> "idle"]
  /\ grader = [done |-> TRUE]
  /\ hist = [pc |-> "idle"]
  /\ stats = [pc |-> "idle"]

\* no text is being parsed
ParseIdle ==
  /\ srcLines = <<>>
  /\ solutionText = <<>>
  /\ parsedSteps = <<>>
  /\ parsed = TRUE

NextFn == FnReceive \/ FnGetUser \/ FnReadBody \/ FnGatewayAnswers

----------------------------------------------------------------------------
(* The parser's inputs                                                     *)

MaxLines == 5        \* lines of a free text
MaxStepLines == 2    \* lines of a text in which every line is a step line

SeqsUpTo(S, n) == UNION {[1..k -> S] : k \in 0..n}

StepLine(num, instruction, hint, answer) ==
  [kind |-> "step", num |-> num, instruction |-> instruction, hint |-> hint,
   answer |-> answer, raw |-> <<>>]

RawLine(text) ==
  [kind |-> "raw", num |-> <<>>, instruction |-> <<>>, hint |-> <<>>,
   answer |-> <<>>, raw |-> text]

\* 'Step <n>: <instruction> | Hint: <hint> | Answer: <answer>'
RenderLine(l) ==
  IF l.kind = "raw" THEN l.raw
  ELSE <<"S", "t", "e", "p", " ">> \o l.num \o <<":", " ">> \o l.instruction
       \o <<" ", "|", " ", "H", "i", "n", "t", ":", " ">> \o l.hint
       \o <<" ", "|", " ", "A", "n", "s", "w", "e", "r", ":", " ">> \o l.answer

TextOf(ls) == JoinLines([i \in 1..Len(ls) |-> RenderLine(ls[i])])

\* field texts without '|' and newline: plain, empty, padded, and ones that
\* repeat the keywords of the pattern
StepNumbers == {<<"1">>, <<"1", "2">>}
InstructionTexts == {<<>>, <<"x", " ", "y", " ">>, <<"H", "i", "n", "t", ":", "z">>}
HintTexts == {<<"h">>, <<"A", "n", "s", "w", "e", "r", ":", "y">>}
AnswerTexts == {<<"x", " ", "=", " ", "4", " ">>, <<"S", "t", "e", "p", " ", "2", ":">>}

StepLines ==
  {StepLine(n, i, h, a) :
     n \in StepNumbers, i \in InstructionTexts, h \in HintTexts, a \in AnswerTexts}

\* lines of a text that need not follow the format: blank, plain, a step
\* whose instruction is a space, and the two halves of a step written over
\* two lines in another letter case
FreeTexts ==
  {<<" ">>,
   <<" ", "x", " ">>,
   <<"S", "t", "e", "p", " ", "2", ":", " ", "|", "H", "i", "n", "t", ":", "h",
     "|", "A", "n", "s", "w", "e", "r", ":", "c">>,
   <<"S", "T", "E", "P", " ", "1", ":", "a", "|", "h", "i", "n", "t", ":", "b">>,
   <<"|", "A", "N", "S", "W", "E", "R", ":", "c", " ">>}

FreeLines == {RawLine(t) : t \in FreeTexts}

----------------------------------------------------------------------------
(* validate-answer: the requests served and the gateway's answers          *)

\* request bodies: a body that is not JSON, the JSON value null, and objects
\* whose fields are missing, of another type, short, at their limit, beyond
\* it, or beyond it only by the white space around them
Bodies ==
  [kind : {"object"},
   userAnswer : {Absent, NotAString, Str(0, 1, 0), Str(0, MaxUserAnswer, 0),
                 Str(0, MaxUserAnswer + 1, 0), Str(0, MaxUserAnswer, 1),
                 Str(1, MaxUserAnswer, 1)},
   expectedAnswer : {Absent, Str(0, 1, 0), Str(0, MaxExpectedAnswer, 0),
                     Str(0, MaxExpectedAnswer, 1)},
   stepInstruction : {Absent, Str(0, 1, 0), Str(0, MaxStepInstruction + 1, 0)},
   problemContext : {Absent, NotAString, Str(0, 1, 0), Str(0, MaxProblemContext + 1, 0)}]
  \cup [kind : {"malformed", "null"}, userAnswer : {Absent}, expectedAnswer : {Absent},
        stepInstruction : {Absent}, problemContext : {Absent}]

ValidBody ==
  [kind |-> "object", userAnswer |-> Str(0, 1, 0), expectedAnswer |-> Str(0, 1, 0),
   stepInstruction |-> Str(0, 1, 0), problemContext |-> Absent]

\* the pieces the model's messages are put together from
MaxChunks == 3
ChunkFenceJson == <<BackTick, BackTick, BackTick, "j", "s", "o", "n">>
ChunkFence == <<BackTick, BackTick, BackTick>>
ChunkObject == <<"{", "\"", "c", "o", "r", "r", "e", "c", "t", "\"", ":", " ", "t", "r", "u", "e", ",", "\"", "f", "e", "e", "d", "b", "a", "c", "k", "\"", ":", "\"", "o", "k", "\"", "}">>
ChunkProse == <<"S", "u", "r", "e", " ">>
ChunkUpper == <<"\"", "C", "o", "r", "r", "e", "c", "t", "\"", ":", "T", "R", "U", "E">>
Chunks ==
  {ChunkFenceJson, ChunkFence, <<"\n">>, ChunkObject, ChunkProse, ChunkUpper, <<"4">>, <<BackTick>>,
   <<"{", "\"", "c", "o", "r", "r", "e", "c", "t", "\"", ":", "\"", "y", "e", "s", "\"", "}">>}

RECURSIVE Concat(_)
Concat(parts) == IF parts = <<>> THEN <<>> ELSE Head(parts) \o Concat(Tail(parts))

Contents == {Concat(parts) : parts \in SeqsUpTo(Chunks, MaxChunks)}

\* what fetch() and the reading of its response come to: a failure, or a
\* message whose content is a text
Gateways ==
  [kind : {"network_error", "http_error", "not_json", "no_choices", "null_content"},
   content : {<<>>}]
  \cup [kind : {"text"}, content : Contents]

InitValidate ==
  /\ \/ /\ request \in [method : {"OPTIONS", "POST"}, auth : {"none", "invalid", "user"},
                       body : Bodies]
        /\ apiKeySet \in BOOLEAN
        /\ gateway = [kind |-> "text", content |-> ChunkObject]
     \/ /\ request = [method |-> "POST", auth |-> "user", body |-> ValidBody]
        /\ apiKeySet = TRUE
        /\ gateway \in Gateways
  /\ fnPc = "start"
  /\ response = NoResponse
  /\ fnLog = <<>>
  /\ forwarded = <<>>
  /\ ParseIdle
  /\ PageIdle
  /\ AuxIdle

SpecValidate == InitValidate /\ [][NextFn]_vars

----------------------------------------------------------------------------
(* The parser run on one text                                              *)

InitParse(lineSets) ==
  /\ srcLines \in lineSets
  /\ solutionText = TextOf(srcLines)
  /\ parsedSteps = <<>>
  /\ parsed = FALSE
  /\ FnIdle
  /\ PageIdle
  /\ AuxIdle

\* setSteps(parseSteps(text)) in generateSolution and in the cached-solution effect
Parse ==
  /\ ~parsed
  /\ parsedSteps' = parseSteps(solutionText)
  /\ parsed' = TRUE
  /\ UNCHANGED <<srcLines, solutionText, fnVars, pageVars, auxVars>>

InitFree == InitParse(SeqsUpTo(FreeLines, MaxLines))

InitSteps == InitParse(SeqsUpTo(StepLines, MaxStepLines) \ {<<>>})

NextParse == Parse

SpecParse == InitFree /\ [][NextParse]_vars

SpecParseSteps == InitSteps /\ [][NextParse]_vars

----------------------------------------------------------------------------
(* The Solution page with remote grading, and the question's record        *)

\* a JavaScript value that may be undefined
Undefined == [defined |-> FALSE]
Defined(v) == [defined |-> TRUE, v |-> v]

\* x || 0 for a number, and the truthiness of a string
OrZero(x) == IF x.defined THEN x.v ELSE 0
TruthyText(x) == x.defined /\ x.v # <<>>

\* solution_data, as handleModeSelect, generateSolution and saveProgress write it
Processing == [status |-> Defined("processing"), solution |-> Undefined, completedSteps |-> Undefined]
SolutionOnly_keepsStatus(text) == [Processing EXCEPT !.solution = Defined(text)]
SolutionOnly(text) == [status |-> Undefined, solution |-> Defined(text), completedSteps |-> Undefined]
Progress(text, done) == [status |-> Undefined, solution |-> Defined(text), completedSteps |-> Defined(done)]

\* update({solution_data}).eq("image_url", ..).eq("solution_mode", ..) for the
\* signed-in user, whose rows are the ones the table holds
UpdateRows(rows, imageUrl, mode, data) ==
  [i \in 1..Len(rows) |->
     IF rows[i].image_url = imageUrl /\ rows[i].solution_mode = mode
     THEN [rows[i] EXCEPT !.solution_data = data] ELSE rows[i]]

\* the state the component is created with, from location.state
InitialState(navState) ==
  [loading |-> TRUE, solution |-> <<>>, steps |-> <<>>,
   currentStep |-> OrZero(navState.startStep),
   completedSteps |-> OrZero(navState.completedSteps),
   userAnswer |-> <<>>, showHint |-> FALSE, attemptedWrong |-> FALSE, wrongAttempts |-> 0,
   showAnswer |-> FALSE, validating |-> FALSE, showingSummary |-> navState.viewSummary]

\* the effect run when the page opens: a cached solution is shown at once,
\* and without one generateSolution is called
AfterEffect(navState) ==
  LET st == InitialState(navState) IN
  IF ~TruthyText(navState.cachedSolution) THEN st
  ELSE IF navState.mode = "step_by_step"
       THEN [st EXCEPT !.steps = parseSteps(navState.cachedSolution.v),
                       !.currentStep = IF navState.viewSummary /\ navState.completedSteps.defined
                                       THEN navState.completedSteps.v ELSE @,
                       !.loading = FALSE]
       ELSE [st EXCEPT !.solution = navState.cachedSolution.v, !.loading = FALSE]

\* the solutions solve-math-problem returns: MaxSessionSteps bounds their steps
MaxSessionSteps == 2
SessionText(k) ==
  TextOf([i \in 1..k |-> StepLine(<<<<"1", "2", "3", "4">>[i]>>, <<"a">>, <<"h">>, <<"4">>)])
SessionTexts == {SessionText(k) : k \in 1..MaxSessionSteps}

\* what the user types into the answer field
Answers == {<<>>, <<" ">>, <<"4">>}

\* what supabase.functions.invoke("validate-answer") resolves to: an error, or
\* the body of a 200 response
InvokeResults ==
  {[error |-> TRUE, data |-> JNull]}
  \cup [error : {FALSE},
        data : {JNull, JNumber(<<"4">>)}
                 \cup {JObject((KeyCorrect :> c) @@ (KeyFeedback :> JString(<<"o", "k">>))) :
                         c \in {JBool(TRUE), JBool(FALSE), JString(<<"y", "e", "s">>)}}]

\* if (error) throw error, and the TypeError of data.correct on null
Throws(result) == result.error \/ result.data.t = "null"

\* the truthiness of data.correct
DataCorrect(result) ==
  /\ result.data.t = "object"
  /\ KeyCorrect \in DOMAIN result.data.fields
  /\ LET c == result.data.fields[KeyCorrect] IN
       CASE c.t = "boolean" -> c.b
         [] c.t = "string" -> c.s # <<>>
         [] c.t = "number" -> c.n # <<"0">>
         [] OTHER -> c.t = "object"

\* wrongAttempts >= 3 shows the Reveal Answer button; the attempts are counted
\* up to there
RevealThreshold == 3

\* updates of saveProgress that may be on their way at once
MaxPendingWrites == 2

\* the answer field and the Submit button are on screen
InStepView ==
  /\ page = "solution"
  /\ ~ui.loading
  /\ nav.mode = "step_by_step"
  /\ ~ui.showingSummary
  /\ ui.currentStep < Len(ui.steps)

\* Solve.handleModeSelect: the record is inserted and the Solution page opens
handleModeSelect ==
  /\ page = "solve"
  /\ \E mode \in {"similar", "step_by_step"} :
       LET navState == [imageUrl |-> "img", mode |-> mode, cachedSolution |-> Undefined,
                        startStep |-> Undefined, completedSteps |-> Undefined,
                        viewSummary |-> FALSE]
       IN /\ history' = Append(history, [image_url |-> "img", solution_mode |-> mode,
                                         solution_data |-> Processing])
          /\ nav' = navState
          /\ ui' = AfterEffect(navState)
          /\ gen' = [pc |-> IF TruthyText(navState.cachedSolution) THEN "none" ELSE "invoke"]
  /\ page' = "solution"
  /\ toast' = "Processing your problem..."
  /\ UNCHANGED <<inflight, writes, parseVars, fnVars, auxVars>>

\* History: a question is clicked and the Solution page opens on its record
OpenFromHistory ==
  /\ page = "home"
  /\ \E i \in 1..Len(history) :
       LET data == history[i].solution_data
           navState == [imageUrl |-> history[i].image_url, mode |-> history[i].solution_mode,
                        cachedSolution |-> data.solution,
                        startStep |-> Defined(OrZero(data.completedSteps)),
                        completedSteps |-> Defined(OrZero(data.completedSteps)),
                        viewSummary |-> history[i].solution_mode = "step_by_step"
                                          /\ TruthyText(data.solution)]
       IN /\ nav' = navState
          /\ ui' = AfterEffect(navState)
          /\ gen' = [pc |-> IF TruthyText(navState.cachedSolution) THEN "none" ELSE "invoke"]
  /\ page' = "solution"
  /\ UNCHANGED <<inflight, writes, toast, history, parseVars, fnVars, auxVars>>

\* generateSolution, from the answer of solve-math-problem to the update of
\* the record
GenerateSolution ==
  /\ page = "solution"
  /\ gen.pc = "invoke"
  /\ \/ /\ ui' = [ui EXCEPT !.loading = FALSE]
        /\ gen' = [pc |-> "none"]
        /\ toast' = "Error"
     \/ \E text \in SessionTexts :
          /\ toast' = toast
          /\ ui' = IF nav.mode = "step_by_step"
                   THEN [ui EXCEPT !.steps = parseSteps(text)]
                   ELSE [ui EXCEPT !.solution = text]
          /\ gen' = [pc |-> "store", solution |-> text]
  /\ UNCHANGED <<page, nav, inflight, writes, history, parseVars, fnVars, auxVars>>

\* generateSolution, once its update of the record has been applied
StoreSolution ==
  /\ page = "solution"
  /\ gen.pc = "store"
  /\ history' = UpdateRows(history, nav.imageUrl, nav.mode, SolutionOnly(gen.solution))
  /\ ui' = [ui EXCEPT !.loading = FALSE]
  /\ gen' = [pc |-> "none"]
  /\ UNCHANGED <<page, nav, inflight, writes, toast, parseVars, fnVars, auxVars>>

\* onChange of the answer field, which is disabled while validating
TypeAnswer ==
  /\ InStepView
  /\ ~ui.validating
  /\ \E a \in Answers \ {ui.userAnswer} : ui' = [ui EXCEPT !.userAnswer = a]
  /\ UNCHANGED <<page, nav, gen, inflight, writes, toast, history, parseVars, fnVars, auxVars>>

\* handleSubmitAnswer up to its await; currentStep is the value its closure holds
SubmitAnswer ==
  /\ InStepView
  /\ ~ui.validating
  /\ trim(ui.userAnswer) # <<>>
  /\ ui' = [ui EXCEPT !.validating = TRUE]
  /\ inflight' = [pc |-> "invoke", currentStep |-> ui.currentStep]
  /\ UNCHANGED <<page, nav, gen, writes, toast, history, parseVars, fnVars, auxVars>>

\* saveProgress(newCompletedSteps): the update it sends
ProgressUpdate(newCompletedSteps) ==
  [imageUrl |-> nav.imageUrl, mode |-> nav.mode,
   data |-> Progress(IF TruthyText(nav.cachedSolution) THEN nav.cachedSolution.v ELSE ui.solution,
                     newCompletedSteps)]

ValidateAccepts_keepsHint ==
  /\ inflight.pc = "invoke"
  /\ BagCardinality(writes) < MaxPendingWrites
  /\ \E result \in InvokeResults :
       /\ ~Throws(result)
       /\ DataCorrect(result)
  /\ LET newCompletedSteps == inflight.currentStep + 1
         accepted == [ui EXCEPT !.completedSteps = newCompletedSteps, !.validating = FALSE]
     IN /\ writes' = writes (+) SetToBag({ProgressUpdate(newCompletedSteps)})
        /\ ui' = IF inflight.currentStep < Len(ui.steps) - 1
                 THEN [accepted EXCEPT !.currentStep = inflight.currentStep + 1,
                                       !.userAnswer = <<>>,
                                       !.attemptedWrong = FALSE]
                 ELSE accepted
  /\ inflight' = [pc |-> "none"]
  /\ toast' = "Correct!"
  /\ UNCHANGED <<page, nav, gen, history, parseVars, fnVars, auxVars>>

\* handleSubmitAnswer after its await, when data.correct is truthy
ValidateAccepts ==
  /\ inflight.pc = "invoke"
  /\ BagCardinality(writes) < MaxPendingWrites
  /\ \E result \in InvokeResults :
       /\ ~Throws(result)
       /\ DataCorrect(result)
  /\ LET newCompletedSteps == inflight.currentStep + 1
         accepted == [ui EXCEPT !.completedSteps = newCompletedSteps, !.validating = FALSE]
     IN /\ writes' = writes (+) SetToBag({ProgressUpdate(newCompletedSteps)})
        /\ ui' = IF inflight.currentStep < Len(ui.steps) - 1
                 THEN [accepted EXCEPT !.currentStep = inflight.currentStep + 1,
                                       !.userAnswer = <<>>, !.showHint = FALSE,
                                       !.attemptedWrong = FALSE, !.wrongAttempts = 0,
                                       !.showAnswer = FALSE]
                 ELSE accepted
  /\ inflight' = [pc |-> "none"]
  /\ toast' = "Correct!"
  /\ UNCHANGED <<page, nav, gen, history, parseVars, fnVars, auxVars>>

ValidateRejects_noCount ==
  /\ inflight.pc = "invoke"
  /\ ui.wrongAttempts < RevealThreshold
  /\ \E result \in InvokeResults :
       /\ ~Throws(result)
       /\ ~DataCorrect(result)
  /\ ui' = [ui EXCEPT !.attemptedWrong = TRUE, !.validating = FALSE]
  /\ inflight' = [pc |-> "none"]
  /\ toast' = "Not quite right"
  /\ UNCHANGED <<page, nav, gen, writes, history, parseVars, fnVars, auxVars>>

\* handleSubmitAnswer after its await, when data.correct is falsy
ValidateRejects ==
  /\ inflight.pc = "invoke"
  /\ ui.wrongAttempts < RevealThreshold
  /\ \E result \in InvokeResults :
       /\ ~Throws(result)
       /\ ~DataCorrect(result)
  /\ ui' = [ui EXCEPT !.attemptedWrong = TRUE, !.wrongAttempts = @ + 1, !.validating = FALSE]
  /\ inflight' = [pc |-> "none"]
  /\ toast' = "Not quite right"
  /\ UNCHANGED <<page, nav, gen, writes, history, parseVars, fnVars, auxVars>>

ValidateFails_countsWrong ==
  /\ inflight.pc = "invoke"
  /\ ui.wrongAttempts < RevealThreshold
  /\ ui' = [ui EXCEPT !.attemptedWrong = TRUE, !.wrongAttempts = @ + 1, !.validating = FALSE]
  /\ inflight' = [pc |-> "none"]
  /\ toast' = "Error validating answer"
  /\ UNCHANGED <<page, nav, gen, writes, history, parseVars, fnVars, auxVars>>

ValidateFails_staysValidating ==
  /\ inflight.pc = "invoke"
  /\ \E result \in InvokeResults : Throws(result)
  /\ ui' = ui
  /\ inflight' = [pc |-> "none"]
  /\ toast' = "Error validating answer"
  /\ UNCHANGED <<page, nav, gen, writes, history, parseVars, fnVars, auxVars>>

\* handleSubmitAnswer after its await, when the invocation failed: the catch
\* block and finally
ValidateFails ==
  /\ inflight.pc = "invoke"
  /\ \E result \in InvokeResults : Throws(result)
  /\ ui' = [ui EXCEPT !.validating = FALSE]
  /\ inflight' = [pc |-> "none"]
  /\ toast' = "Error validating answer"
  /\ UNCHANGED <<page, nav, gen, writes, history, parseVars, fnVars, auxVars>>

\* an update sent by saveProgress reaches the table; updates sent one after
\* the other without being awaited may arrive in either order
SaveProgressLands ==
  /\ \E w \in BagToSet(writes) :
       /\ history' = UpdateRows(history, w.imageUrl, w.mode, w.data)
       /\ writes' = writes (-) SetToBag({w})
  /\ UNCHANGED <<toast, page, nav, ui, gen, inflight, parseVars, fnVars, auxVars>>

\* the Hint button
ShowHint ==
  /\ InStepView
  /\ ~ui.showHint
  /\ ui' = [ui EXCEPT !.showHint = TRUE]
  /\ UNCHANGED <<page, nav, gen, inflight, writes, toast, history, parseVars, fnVars, auxVars>>

\* the Reveal Answer button, shown after three wrong attempts
RevealAnswer ==
  /\ InStepView
  /\ ui.wrongAttempts >= RevealThreshold
  /\ ~ui.showAnswer
  /\ ui' = [ui EXCEPT !.showAnswer = TRUE]
  /\ UNCHANGED <<page, nav, gen, inflight, writes, toast, history, parseVars, fnVars, auxVars>>

\* handleContinueSolving, from the summary of an unfinished problem
handleContinueSolving ==
  /\ page = "solution"
  /\ ~ui.loading
  /\ nav.mode = "step_by_step"
  /\ ui.showingSummary
  /\ ui.completedSteps < Len(ui.steps)
  /\ ui' = [ui EXCEPT !.showingSummary = FALSE, !.currentStep = ui.completedSteps]
  /\ UNCHANGED <<page, nav, gen, inflight, writes, toast, history, parseVars, fnVars, auxVars>>

\* the Back button of the Solution page; the user presses it when nothing is
\* awaited and the updates sent have been applied
Leave ==
  /\ page = "solution"
  /\ gen.pc = "none"
  /\ inflight.pc = "none"
  /\ writes = EmptyBag
  /\ page' = "home"
  /\ nav' = [imageUrl |-> "none"]
  /\ ui' = [loading |-> FALSE]
  /\ UNCHANGED <<gen, inflight, writes, toast, history, parseVars, fnVars, auxVars>>

InitSession ==
  /\ page = "solve"
  /\ nav = [imageUrl |-> "none"]
  /\ ui = [loading |-> FALSE]
  /\ gen = [pc |-> "none"]
  /\ inflight = [pc |-> "none"]
  /\ writes = EmptyBag
  /\ toast = "none"
  /\ history = <<>>
  /\ ParseIdle
  /\ FnIdle
  /\ AuxIdle

NextSession ==
  \/ handleModeSelect
  \/ OpenFromHistory
  \/ GenerateSolution
  \/ StoreSolution
  \/ TypeAnswer
  \/ SubmitAnswer
  \/ ValidateAccepts
  \/ ValidateRejects
  \/ ValidateFails
  \/ SaveProgressLands
  \/ ShowHint
  \/ RevealAnswer
  \/ handleContinueSolving
  \/ Leave

SpecSession == InitSession /\ [][NextSession]_vars

\* handleGenerateSimilar, from the buttons of the summary, of a step answered
\* wrongly and of the completed view: solve-math-problem fails, or the page
\* is given the location state {imageUrl, mode: 'similar'} and its effect
\* calls generateSolution
handleGenerateSimilar ==
  /\ page = "solution"
  /\ nav.mode = "step_by_step"
  /\ ~ui.loading
  /\ gen.pc = "none"
  /\ inflight.pc = "none"
  /\ IF ui.showingSummary THEN ui.completedSteps >= Len(ui.steps)
     ELSE ui.currentStep >= Len(ui.steps) \/ ui.attemptedWrong
  /\ \/ /\ toast' = "Error"
        /\ UNCHANGED <<nav, ui, gen>>
     \/ \E text \in SessionTexts :
          /\ ui' = [ui EXCEPT !.solution = text, !.loading = TRUE]
          /\ nav' = [imageUrl |-> nav.imageUrl, mode |-> "similar",
                     cachedSolution |-> Undefined, startStep |-> Undefined,
                     completedSteps |-> Undefined, viewSummary |-> FALSE]
          /\ gen' = [pc |-> "invoke"]
          /\ toast' = toast
  /\ UNCHANGED <<page, inflight, writes, history, parseVars, fnVars, auxVars>>

NextSimilar == NextSession \/ handleGenerateSimilar

\* the session with the buttons that ask for a similar problem
SpecSimilar == InitSession /\ [][NextSimilar]_vars

\* the session when every call awaited is answered and every update sent
\* is applied; nothing obliges the user to act
SpecSessionFair ==
  /\ SpecSession
  /\ WF_vars(GenerateSolution)
  /\ WF_vars(StoreSolution)
  /\ WF_vars(ValidateAccepts \/ ValidateRejects \/ ValidateFails)
  /\ WF_vars(SaveProgressLands)

----------------------------------------------------------------------------
(* generate-study-guide: the history context and the handler               *)

\* obj.key for an object read from JSON: undefined when the key is absent
Get(obj, key) == IF key \in DOMAIN obj THEN obj[key] ELSE Undefined

\* `${n}` for a number
RECURSIVE numberText(_)
numberText(n) ==
  LET digit == <<"0", "1", "2", "3", "4", "5", "6", "7", "8", "9">>[(n % 10) + 1]
  IN IF n < 10 THEN <<digit>> ELSE Append(numberText(n \div 10), digit)

\* the characters of a solution_mode
ModeText(mode) ==
  IF mode = "similar" THEN <<"s", "i", "m", "i", "l", "a", "r">>
  ELSE <<"s", "t", "e", "p", "_", "b", "y", "_", "s", "t", "e", "p">>

\* the limits of the context building and of the query
MaxSolutionLength == 2000
MinEntryLength == 50
MinContextLength == 100
QueryLimit == 20

EntryContent_includesProcessing(q, idx) ==
  LET header == <<"P", "r", "o", "b", "l", "e", "m", " ">> \o numberText(idx + 1)
                  \o <<" ", "(", "M", "o", "d", "e", ":", " ">> \o ModeText(q.solution_mode)
                  \o <<")", ":">>
      solutionText0 == IF TruthyText(q.problem_text) THEN q.problem_text.v ELSE <<>>
  IN IF solutionText0 # <<>> THEN header \o <<"\n">> \o solutionText0 ELSE <<>>

\* the callback of questions.map: the entry of question q at index idx (from 0)
EntryContent(q, idx) ==
  LET header == <<"P", "r", "o", "b", "l", "e", "m", " ">> \o numberText(idx + 1)
                  \o <<" ", "(", "M", "o", "d", "e", ":", " ">> \o ModeText(q.solution_mode)
                  \o <<")", ":">>
      data == q.solution_data
      fromData == IF TruthyText(Get(data, "rawSolution")) THEN data.rawSolution.v
                  ELSE IF TruthyText(Get(data, "solution")) THEN data.solution.v
                  ELSE <<>>
      solutionText0 == IF fromData = <<>> /\ TruthyText(q.problem_text)
                       THEN q.problem_text.v ELSE fromData
      truncated == IF Len(solutionText0) > MaxSolutionLength
                   THEN SubSeq(solutionText0, 1, MaxSolutionLength) \o <<".", ".", ".">>
                   ELSE solutionText0
  IN IF Get(data, "status") = Defined("processing") THEN <<>>
     ELSE IF solutionText0 # <<>> THEN header \o <<"\n">> \o truncated
     ELSE <<>>

\* parts.join(separator)
RECURSIVE join(_, _)
join(parts, separator) ==
  IF parts = <<>> THEN <<>>
  ELSE IF Len(parts) = 1 THEN parts[1]
  ELSE parts[1] \o separator \o join(Tail(parts), separator)

\* questions.map(...).filter(c => c.length > 50).join('\n\n---\n\n')
historyContext(questions) ==
  join(SelectSeq([i \in 1..Len(questions) |-> EntryContent(questions[i], i - 1)],
                 LAMBDA c : Len(c) > MinEntryLength),
       <<"\n", "\n", "-", "-", "-", "\n", "\n">>)

\* .select(...).eq('user_id', userId).order('created_at', {ascending: false})
\* .limit(20) on a table kept in the order of creation
SelectQuestions(rows, userId) ==
  LET own == SelectSeq(rows, LAMBDA r : r.user_id = userId)
      newestFirst == [i \in 1..Len(own) |-> own[Len(own) + 1 - i]]
  IN SubSeq(newestFirst, 1, IF Len(own) < QueryLimit THEN Len(own) ELSE QueryLimit)

\* serve's handler up to the query: the preflight answer, req.json() and the
\* API key
GuideReceive ==
  /\ guide.pc = "start"
  /\ guide' =
       IF guide.request.method = "OPTIONS"
       THEN [guide EXCEPT !.pc = "done", !.response = [status |-> 200, error |-> "none"]]
       ELSE IF ~guide.apiKeySet
       THEN [guide EXCEPT !.pc = "done",
                          !.response = [status |-> 500, error |-> "LOVABLE_API_KEY not configured"]]
       ELSE [guide EXCEPT !.pc = "query"]
  /\ UNCHANGED <<parseVars, fnVars, pageVars, grader, hist, stats>>

\* the query has answered: without questions, or with too little context, 404;
\* otherwise the context is sent to the gateway
GuideQueryAnswers ==
  /\ guide.pc = "query"
  /\ LET questions == SelectQuestions(history, guide.request.userId)
         context == historyContext(questions)
     IN guide' =
          IF questions = <<>>
          THEN [guide EXCEPT !.pc = "done", !.questions = questions,
                             !.response = [status |-> 404, error |-> "No question history found"]]
          ELSE IF Len(context) < MinContextLength
          THEN [guide EXCEPT !.pc = "done", !.questions = questions, !.historyContext = context,
                             !.response = [status |-> 404, error |-> "Not enough problem data"]]
          ELSE [guide EXCEPT !.pc = "fetch", !.questions = questions, !.historyContext = context,
                             !.sent = <<[historyContext |-> context, total |-> Len(questions)]>>]
  /\ UNCHANGED <<parseVars, fnVars, pageVars, grader, hist, stats>>

\* fetch() has settled: the study guide is returned, or the outer catch answers
GuideGatewayAnswers ==
  /\ guide.pc = "fetch"
  /\ \E ok \in BOOLEAN :
       guide' = [guide EXCEPT !.pc = "done",
                              !.response = IF ok THEN [status |-> 200, error |-> "none"]
                                           ELSE [status |-> 500, error |-> "AI API error"]]
  /\ UNCHANGED <<parseVars, fnVars, pageVars, grader, hist, stats>>

\* the rows the table may hold: MaxGuideRows bounds their number
MaxGuideRows == 2
Repeat(c, n) == [i \in 1..n |-> c]
GuideRow(user, problemText, mode, data) ==
  [user_id |-> user, image_url |-> "img", problem_text |-> problemText,
   solution_mode |-> mode, solution_data |-> data]
GuideRows ==
  {GuideRow("A", Defined(Repeat("p", 80)), "step_by_step", Processing),
   GuideRow("A", Undefined, "similar", Processing),
   GuideRow("A", Undefined, "step_by_step", SolutionOnly(Repeat("s", 80))),
   GuideRow("A", Undefined, "similar", SolutionOnly(<<"x", "=", "4">>)),
   GuideRow("A", Defined(Repeat("q", 80)), "similar",
            [status |-> Undefined, solution |-> Undefined, completedSteps |-> Undefined]),
   GuideRow("A", Undefined, "step_by_step", Progress(Repeat("t", MaxSolutionLength + 1), 1)),
   GuideRow("B", Undefined, "step_by_step", SolutionOnly(Repeat("b", 80))),
   GuideRow("B", Defined(Repeat("r", 80)), "similar", Processing)}

InitGuide ==
  /\ history \in SeqsUpTo(GuideRows, MaxGuideRows)
  /\ guide \in [pc : {"start"},
                request : [method : {"OPTIONS", "POST"}, caller : {"A", "B"}, userId : {"A", "B"},
                           questionIds : {Undefined}],
                apiKeySet : BOOLEAN, questions : {<<>>}, historyContext : {<<>>},
                sent : {<<>>}, response : {[status |-> 0, error |-> "none"]}]
  /\ grader = [done |-> TRUE]
  /\ hist = [pc |-> "idle"]
  /\ stats = [pc |-> "idle"]
  /\ page = "none"
  /\ nav = [imageUrl |-> "none"]
  /\ ui = [loading |-> FALSE]
  /\ gen = [pc |-> "none"]
  /\ inflight = [pc |-> "none"]
  /\ writes = EmptyBag
  /\ toast = "none"
  /\ ParseIdle
  /\ FnIdle

NextGuide == GuideReceive \/ GuideQueryAnswers \/ GuideGatewayAnswers

SpecGuide == InitGuide /\ [][NextGuide]_vars

----------------------------------------------------------------------------
(* The Solution page with the local heuristic grader                       *)

\* the characters of the class [.,;:!?]
Punctuation == {".", ",", ";", ":", "!", "?"}

normalizeAnswer_oneTrailing(ans) ==
  LET t == SelectSeq(toLowerCase(trim(ans)), LAMBDA c : c \notin WhiteSpace)
  IN IF t # <<>> /\ t[Len(t)] \in Punctuation THEN SubSeq(t, 1, Len(t) - 1) ELSE t

\* ans.trim().toLowerCase().replace(/\s+/g, '').replace(/[.,;:!?]/g, '')
normalizeAnswer(ans) ==
  SelectSeq(SelectSeq(toLowerCase(trim(ans)), LAMBDA c : c \notin WhiteSpace),
            LAMBDA c : c \notin Punctuation)

isCorrect_emptyMatches(userNormalized, correctNormalized) ==
  \/ userNormalized = correctNormalized
  \/ includes(correctNormalized, userNormalized)
  \/ includes(userNormalized, correctNormalized)

\* isCorrect, of the two normalized strings
isCorrect(userNormalized, correctNormalized) ==
  \/ userNormalized = correctNormalized
  \/ includes(correctNormalized, userNormalized) /\ Len(userNormalized) > 0
  \/ includes(userNormalized, correctNormalized) /\ Len(correctNormalized) > 0

\* handleSubmitAnswer of the page that grades locally
LocalSubmitAnswer ==
  /\ ~grader.done
  /\ IF grader.currentStep >= Len(grader.steps)
     THEN grader' = [grader EXCEPT !.done = TRUE]
     ELSE LET userNormalized == normalizeAnswer(grader.userAnswer)
              correctNormalized == normalizeAnswer(grader.steps[grader.currentStep + 1])
              graded == [grader EXCEPT !.done = TRUE, !.userNormalized = userNormalized,
                                       !.correctNormalized = correctNormalized]
          IN grader' =
               IF isCorrect(userNormalized, correctNormalized)
               THEN IF grader.currentStep < Len(grader.steps) - 1
                    THEN [graded EXCEPT !.toast = "Correct!", !.currentStep = @ + 1,
                                        !.userAnswer = <<>>, !.showHint = FALSE,
                                        !.attemptedWrong = FALSE]
                    ELSE [graded EXCEPT !.toast = "Correct!"]
               ELSE [graded EXCEPT !.toast = "Not quite right", !.attemptedWrong = TRUE]
  /\ UNCHANGED <<parseVars, fnVars, pageVars, guide, hist, stats>>

\* the answers typed and expected: MaxTypedLen and MaxExpectedLen bound them
MaxTypedLen == 3
MaxExpectedLen == 2
AnswerChars == {"A", "a", " ", ".", "1"}

InitGrader ==
  /\ \E typed \in SeqsUpTo(AnswerChars, MaxTypedLen),
        expected \in SeqsUpTo(AnswerChars, MaxExpectedLen),
        n \in 0..2 :
       /\ n = 0 => expected = <<>>
       /\ grader = [done |-> FALSE, steps |-> [i \in 1..n |-> expected], currentStep |-> 0,
                    userAnswer |-> typed, showHint |-> TRUE, attemptedWrong |-> TRUE,
                    userNormalized |-> <<>>, correctNormalized |-> <<>>, toast |-> "none"]
  /\ guide = [pc |-> "idle"]
  /\ hist = [pc |-> "idle"]
  /\ stats = [pc |-> "idle"]
  /\ ParseIdle
  /\ FnIdle
  /\ PageIdle

NextGrader == LocalSubmitAnswer

SpecGrader == InitGrader /\ [][NextGrader]_vars

----------------------------------------------------------------------------
(* The History page: search by tag, selection, deletion, study guide       *)

\* filteredQuestions
filteredQuestions(questions, tagSearch) ==
  IF trim(tagSearch) = <<>> THEN questions
  ELSE SelectSeq(questions,
                 LAMBDA q : /\ q.tags.defined
                            /\ \E i \in 1..Len(q.tags.v) :
                                 includes(toLowerCase(q.tags.v[i]), toLowerCase(tagSearch)))

\* the ids of a list of questions
Ids(questions) == {questions[i].id : i \in 1..Len(questions)}

\* loadHistory: the signed-in user's questions, newest first
loadHistory ==
  /\ hist.pc = "loading"
  /\ LET own == SelectSeq(history, LAMBDA r : r.user_id = hist.user)
     IN hist' = [hist EXCEPT !.pc = "shown",
                             !.questions = [i \in 1..Len(own) |-> own[Len(own) + 1 - i]]]
  /\ UNCHANGED <<parseVars, fnVars, pageVars, guide, grader, stats>>

\* toggleQuestion, from the checkbox of a question on screen
toggleQuestion ==
  /\ hist.pc = "shown"
  /\ \E id \in Ids(filteredQuestions(hist.questions, hist.tagSearch)) :
       hist' = [hist EXCEPT !.selectedQuestions =
                              IF id \in @ THEN @ \ {id} ELSE @ \cup {id}]
  /\ UNCHANGED <<parseVars, fnVars, pageVars, guide, grader, stats>>

\* selectAll, from the button shown unless allSelected
selectAll ==
  /\ hist.pc = "shown"
  /\ hist.questions # <<>>
  /\ LET filtered == filteredQuestions(hist.questions, hist.tagSearch)
     IN /\ ~(filtered # <<>> /\ Ids(filtered) \subseteq hist.selectedQuestions)
        /\ hist' = [hist EXCEPT !.selectedQuestions = Ids(filtered)]
  /\ UNCHANGED <<parseVars, fnVars, pageVars, guide, grader, stats>>

\* deselectAll, from the button shown when someSelected
deselectAll ==
  /\ hist.pc = "shown"
  /\ hist.questions # <<>>
  /\ hist.selectedQuestions # {}
  /\ hist' = [hist EXCEPT !.selectedQuestions = {}]
  /\ UNCHANGED <<parseVars, fnVars, pageVars, guide, grader, stats>>

\* what is typed into the search field
SearchTexts == {<<>>, <<"s", "e">>, <<"A">>}

\* onChange of the search field, shown when a question has a tag
setTagSearch ==
  /\ hist.pc = "shown"
  /\ \E i \in 1..Len(hist.questions) :
       hist.questions[i].tags.defined /\ hist.questions[i].tags.v # <<>>
  /\ \E text \in SearchTexts \ {hist.tagSearch} : hist' = [hist EXCEPT !.tagSearch = text]
  /\ UNCHANGED <<parseVars, fnVars, pageVars, guide, grader, stats>>

\* handleDelete of a question on screen: the row is deleted and leaves the
\* list, or the deletion fails and a toast tells so
handleDelete ==
  /\ hist.pc = "shown"
  /\ \E id \in Ids(filteredQuestions(hist.questions, hist.tagSearch)) :
       \/ /\ history' = SelectSeq(history, LAMBDA r : r.id # id)
          /\ hist' = [hist EXCEPT !.questions = SelectSeq(@, LAMBDA q : q.id # id),
                                  !.toast = "Question deleted"]
       \/ /\ history' = history
          /\ hist' = [hist EXCEPT !.toast = "Error"]
  /\ UNCHANGED <<page, nav, ui, gen, inflight, writes, toast, parseVars, fnVars, guide,
                 grader, stats>>

\* handleGenerateStudyGuide up to its await: the toast announces count
\* problems and generate-study-guide is invoked with userId and questionIds
handleGenerateStudyGuide ==
  /\ hist.pc = "shown"
  /\ hist.questions # <<>>
  /\ LET questionIds == IF hist.selectedQuestions # {} THEN Defined(hist.selectedQuestions)
                        ELSE Undefined
         count == IF questionIds.defined THEN Cardinality(questionIds.v)
                  ELSE Len(hist.questions)
     IN /\ hist' = [hist EXCEPT !.pc = "generating",
                                !.toast = "Generating study guide...", !.count = count]
        /\ \E key \in BOOLEAN :
             guide' = [pc |-> "start",
                       request |-> [method |-> "POST", caller |-> hist.user,
                                    userId |-> hist.user, questionIds |-> questionIds],
                       apiKeySet |-> key, questions |-> <<>>, historyContext |-> <<>>,
                       sent |-> <<>>, response |-> [status |-> 0, error |-> "none"]]
  /\ UNCHANGED <<parseVars, fnVars, pageVars, grader, stats>>

\* handleGenerateStudyGuide after its await: the study guide is opened, or
\* the error is shown
StudyGuideReturns ==
  /\ hist.pc = "generating"
  /\ guide.pc = "done"
  /\ hist' = IF guide.response.status = 200
             THEN [hist EXCEPT !.pc = "study-guide", !.toast = "Study guide created and saved!"]
             ELSE [hist EXCEPT !.pc = "shown", !.toast = "Error"]
  /\ UNCHANGED <<parseVars, fnVars, pageVars, guide, grader, stats>>

\* the questions the table may hold: MaxHistoryRows bounds their number; the
\* id of a question is its rank of creation
MaxHistoryRows == 2
HistoryRows ==
  {[user_id |-> "A", image_url |-> "img", problem_text |-> Undefined,
    solution_mode |-> "step_by_step", solution_data |-> r[1], tags |-> r[2]] :
     r \in {<<Processing, Undefined>>,
            <<SolutionOnly(Repeat("s", 80)), Defined(<<<<"S", "e", "t", "s">>>>)>>,
            <<SolutionOnly(Repeat("t", 80)), Defined(<<<<"a", "r", "e", "a">>>>)>>}}

InitHistory ==
  /\ \E rows \in SeqsUpTo(HistoryRows, MaxHistoryRows) :
       history = [i \in 1..Len(rows) |-> rows[i] @@ [id |-> i]]
  /\ hist = [pc |-> "loading", user |-> "A", questions |-> <<>>, tagSearch |-> <<>>,
             selectedQuestions |-> {}, toast |-> "none", count |-> 0]
  /\ guide = [pc |-> "idle"]
  /\ grader = [done |-> TRUE]
  /\ stats = [pc |-> "idle"]
  /\ page = "none"
  /\ nav = [imageUrl |-> "none"]
  /\ ui = [loading |-> FALSE]
  /\ gen = [pc |-> "none"]
  /\ inflight = [pc |-> "none"]
  /\ writes = EmptyBag
  /\ toast = "none"
  /\ ParseIdle
  /\ FnIdle

NextHistory ==
  \/ loadHistory
  \/ toggleQuestion
  \/ selectAll
  \/ deselectAll
  \/ setTagSearch
  \/ handleDelete
  \/ handleGenerateStudyGuide
  \/ GuideReceive
  \/ GuideQueryAnswers
  \/ GuideGatewayAnswers
  \/ StudyGuideReturns

SpecHistory == InitHistory /\ [][NextHistory]_vars

----------------------------------------------------------------------------
(* The Home page: its statistics                                           *)

\* the filter of fetchStats: solutionData.solution?.steps?.length || 0 is 0
\* for a solution that is a string or is missing, as every solution written
\* by the Solution page is
CompletedSession(q) ==
  /\ q.solution_mode = "step-by-step"
  /\ LET steps == Undefined
         totalSteps == IF steps.defined THEN Len(steps.v) ELSE 0
         completedSteps == OrZero(Get(q.solution_data, "completedSteps"))
     IN totalSteps > 0 /\ completedSteps >= totalSteps

\* fetchStats: the user's records are read and counted
fetchStats ==
  /\ stats.pc = "loading"
  /\ LET data == SelectSeq(history, LAMBDA r : r.user_id = stats.user)
     IN stats' = [stats EXCEPT !.pc = "shown", !.problemsSolved = Len(data),
                               !.studySessions = Len(SelectSeq(data, CompletedSession))]
  /\ UNCHANGED <<parseVars, fnVars, pageVars, guide, grader, hist>>

\* the records the table may hold: MaxStatsRows bounds their number
MaxStatsRows == 2
StatsRows ==
  [user_id : {"A"}, image_url : {"img"}, solution_mode : {"similar", "step_by_step"},
   solution_data : {Processing, SolutionOnly(SessionText(1)), Progress(SessionText(1), 1),
                    Progress(SessionText(2), 1), Progress(SessionText(2), 2)}]
  \cup [user_id : {"B"}, image_url : {"img"}, solution_mode : {"step_by_step"},
        solution_data : {Progress(SessionText(1), 1)}]

InitStats ==
  /\ history \in SeqsUpTo(StatsRows, MaxStatsRows)
  /\ stats = [pc |-> "loading", user |-> "A", problemsSolved |-> 0, studySessions |-> 0]
  /\ guide = [pc |-> "idle"]
  /\ grader = [done |-> TRUE]
  /\ hist = [pc |-> "idle"]
  /\ page = "none"
  /\ nav = [imageUrl |-> "none"]
  /\ ui = [loading |-> FALSE]
  /\ gen = [pc |-> "none"]
  /\ inflight = [pc |-> "none"]
  /\ writes = EmptyBag
  /\ toast = "none"
  /\ ParseIdle
  /\ FnIdle

NextStats == fetchStats

SpecStats == InitStats /\ [][NextStats]_vars

----------------------------------------------------------------------------
(* Properties of parseSteps                                                *)

IsBlank(text) == \A i \in 1..Len(text) : text[i] \in WhiteSpace

\* the lines of the input, as it was put together, that hold a character
\* other than white space
NonBlankSrcLines ==
  SelectSeq([i \in 1..Len(srcLines) |-> RenderLine(srcLines[i])],
            LAMBDA l : ~IsBlank(l))

NoPatternMatch == execAll(stepRegex, solutionText, 1) = <<>>

\* C1: a text of k >= 1 lines 'Step <n>: <instruction> | Hint: <hint> |
\* Answer: <answer>' parses to exactly k steps, the i-th from the i-th line,
\* its fields the line's fields with the surrounding white space removed.
C1_StepLinesParsedInOrder ==
  (parsed /\ Len(srcLines) >= 1 /\ \A i \in 1..Len(srcLines) : srcLines[i].kind = "step")
    => parsedSteps =
         [i \in 1..Len(srcLines) |->
            [instruction |-> trim(srcLines[i].instruction),
             hint |-> trim(srcLines[i].hint),
             answer |-> trim(srcLines[i].answer)]]

C1_Witness ==
  /\ parsed
  /\ Len(srcLines) = 2
  /\ srcLines[1].instruction = <<"H", "i", "n", "t", ":", "z">>
  /\ srcLines[2].answer = <<"x", " ", "=", " ", "4", " ">>
  /\ Len(parsedSteps) = 2
  /\ parsedSteps[1].instruction = <<"H", "i", "n", "t", ":", "z">>
  /\ parsedSteps[2].answer = <<"x", " ", "=", " ", "4">>

\* C2: with no match of the pattern, the result has min(4, n) steps, n the
\* number of lines that are not blank; the i-th step's instruction is the
\* i-th such line as written, its hint and answer the fixed texts.
C2_FallbackSteps ==
  (parsed /\ NoPatternMatch)
    => LET n == IF Len(NonBlankSrcLines) < 4 THEN Len(NonBlankSrcLines) ELSE 4
       IN parsedSteps =
            [i \in 1..n |->
               [instruction |-> NonBlankSrcLines[i],
                hint |-> FallbackHint,
                answer |-> FallbackAnswer]]

C2_Witness ==
  /\ parsed
  /\ NoPatternMatch
  /\ Len(NonBlankSrcLines) = 5
  /\ Len(parsedSteps) = 4
  /\ parsedSteps[1].instruction = <<" ", "x", " ">>

\* C3: the result is empty exactly when the input is empty or all white
\* space.
C3_EmptyIffBlank ==
  parsed => (parsedSteps = <<>> <=> IsBlank(solutionText))

C3_Witness ==
  /\ parsed
  /\ Len(solutionText) > 1
  /\ IsBlank(solutionText)
  /\ parsedSteps = <<>>

----------------------------------------------------------------------------
(* Properties of validate-answer                                           *)

Served == fnPc = "done" /\ request.method = "POST"

TooLong(f, most) == f.type = "string" /\ Length(f) > most

LacksRequired(body) ==
  \/ body.userAnswer.type = "absent"
  \/ body.expectedAnswer.type = "absent"
  \/ body.stepInstruction.type = "absent"

OtherFieldsOffend(body) ==
  \/ TooLong(body.expectedAnswer, MaxExpectedAnswer)
  \/ TooLong(body.stepInstruction, MaxStepInstruction)
  \/ TooLong(body.problemContext, MaxProblemContext)
  \/ LacksRequired(body)

\* C4 as stated, for a deployment with its API key and a body that is a JSON
\* object: an authenticated request whose userAnswer has more than 1000
\* characters, or with another field too long or a required field missing,
\* is answered 400 and nothing is forwarded.
C4_AsStated ==
  (/\ Served
   /\ request.auth = "user"
   /\ apiKeySet
   /\ request.body.kind = "object"
   /\ TooLong(request.body.userAnswer, MaxUserAnswer) \/ OtherFieldsOffend(request.body))
  => response.status = 400 /\ forwarded = <<>>

\* C4: an authenticated request whose userAnswer, once the white space around
\* it is removed, has more than 1000 characters, whose expectedAnswer has
\* more than 500, stepInstruction more than 1000, problemContext more than
\* 500, or which lacks a required field, is never forwarded to the gateway;
\* it is answered 400 when the API key is configured and the body is JSON,
\* and 500 otherwise; and no userAnswer of more than 1000 characters is ever
\* forwarded.
C4_InvalidInputRejected ==
  /\ (/\ request.method = "POST"
      /\ request.auth = "user"
      /\ \/ TooLong(ZodTrim(request.body.userAnswer), MaxUserAnswer)
         \/ OtherFieldsOffend(request.body))
     => /\ forwarded = <<>>
        /\ fnPc = "done"
             => response.status =
                  (IF apiKeySet /\ request.body.kind # "malformed" THEN 400 ELSE 500)
  /\ \A i \in 1..Len(forwarded) : Length(forwarded[i].userAnswer) <= MaxUserAnswer

\* reached: a userAnswer of 1001 characters, none of them white space at
\* either end, in an otherwise valid request, answered 400
C4_Witness ==
  /\ Served
  /\ request.auth = "user"
  /\ request.body = [ValidBody EXCEPT !.userAnswer = Str(0, MaxUserAnswer + 1, 0)]
  /\ fnLog = <<"getUser", "json", "safeParse">>
  /\ response.status = 400
  /\ forwarded = <<>>

GradingWork == {"json", "safeParse", "fetch", "parse"}

NoGradingWork == forwarded = <<>> /\ \A i \in 1..Len(fnLog) : fnLog[i] \notin GradingWork

\* C5 as stated: a request other than the preflight with no Authorization
\* header, or whose token resolves to no user, is answered 401 before any
\* grading work.
C5_AsStated ==
  (fnPc = "done" /\ request.method # "OPTIONS" /\ request.auth # "user")
  => response.status = 401 /\ NoGradingWork

\* C5: for a request other than the preflight with no Authorization header,
\* or whose token resolves to no user, no grading work (body parsing,
\* validation, LLM call) is ever done, and it is answered 401 when
\* LOVABLE_API_KEY is configured and 500 when it is not.
C5_UnauthenticatedRejected ==
  (request.method # "OPTIONS" /\ request.auth # "user")
  => /\ NoGradingWork
     /\ fnPc = "done" => response.status = (IF apiKeySet THEN 401 ELSE 500)

\* reached: a token that resolves to no user, answered 401 after getUser alone
C5_Witness ==
  /\ Served
  /\ request.auth = "invalid"
  /\ request.body = ValidBody
  /\ fnLog = <<"getUser">>
  /\ response.status = 401

\* b wrapped in a fenced code block: ```json, newline, b, newline, ```
Wrap(b) == ChunkFenceJson \o <<"\n">> \o b \o <<"\n">> \o ChunkFence

Graded == Served /\ response.status = 200 /\ gateway.kind = "text"

\* C8: the result returned for a message text b is the result the same
\* parsing gives for b wrapped in a fenced code block.
C8_FencedSameResult ==
  Graded => response.body = GradingResult(Wrap(gateway.content))

\* reached: a message that is a bare object, whose wrapped form cleans to it
C8_Witness ==
  /\ Graded
  /\ gateway.content = ChunkObject
  /\ cleanedResponse(Wrap(gateway.content)) = ChunkObject
  /\ response.body.t = "object"
  /\ response.body.fields[KeyCorrect] = JBool(TRUE)
  /\ response.body.fields[KeyFeedback] = JString(<<"o", "k">>)

ContainsCorrectTrue(text) ==
  \E i \in 1..Len(text) : \E needle \in Needles :
    /\ i + Len(needle) - 1 <= Len(text)
    /\ \A k \in 1..Len(needle) : LowerChar(text[i + k - 1]) = needle[k]

\* C9: when the message text, cleaned of its fences, is not JSON, the result
\* is an object with feedback 'Answer evaluated' and correct true exactly when
\* the text holds '"correct": true' or '"correct":true' in any letter case.
C9_ParseFallback ==
  (Graded /\ ~JSONparse(cleanedResponse(gateway.content)).ok)
  => response.body =
       JObject((KeyCorrect :> JBool(ContainsCorrectTrue(gateway.content)))
                 @@ (KeyFeedback :> JString(AnswerEvaluated)))

\* reached: upper-case '"Correct":TRUE' after prose, graded correct
C9_Witness ==
  /\ Graded
  /\ gateway.content = ChunkProse \o ChunkUpper
  /\ response.body.t = "object"
  /\ response.body.fields[KeyCorrect] = JBool(TRUE)
  /\ response.body.fields[KeyFeedback] = JString(AnswerEvaluated)

IsGradingObject(v) ==
  /\ v.t = "object"
  /\ KeyCorrect \in DOMAIN v.fields
  /\ v.fields[KeyCorrect].t = "boolean"
  /\ KeyFeedback \in DOMAIN v.fields
  /\ v.fields[KeyFeedback].t = "string"

\* C10: every 200 response to a grading request has a body that is an object
\* with a boolean field correct and a string field feedback.
C10_SuccessBodyShape ==
  (Served /\ response.status = 200) => IsGradingObject(response.body)

----------------------------------------------------------------------------
(* Properties of the Solution page                                         *)

\* the completedSteps stored for the question of the session
PersistedCompleted == OrZero(history[1].solution_data.completedSteps)

\* C6: a step of handleSubmitAnswer that ends a failed invocation (the error
\* toast is shown), like the step that sends it, leaves currentStep, the
\* local and the stored completedSteps, wrongAttempts and attemptedWrong as
\* they were, sends no update, and ends with validating false.
C6_FailedInvocationChangesNothing ==
  [][(\/ inflight.pc = "none" /\ inflight'.pc = "invoke"
      \/ /\ inflight.pc = "invoke"
         /\ inflight'.pc = "none"
         /\ toast' = "Error validating answer")
     => /\ ui'.currentStep = ui.currentStep
        /\ ui'.completedSteps = ui.completedSteps
        /\ ui'.wrongAttempts = ui.wrongAttempts
        /\ ui'.attemptedWrong = ui.attemptedWrong
        /\ history' = history
        /\ writes' = writes
        /\ inflight'.pc = "none" => ~ui'.validating]_vars

\* reached: a first answer whose validation failed; nothing has been counted
C6_Witness ==
  /\ page = "solution"
  /\ toast = "Error validating answer"
  /\ inflight.pc = "none"
  /\ ~ui.validating
  /\ trim(ui.userAnswer) # <<>>
  /\ ui.currentStep = 0
  /\ ui.completedSteps = 0
  /\ ui.wrongAttempts = 0
  /\ ~ui.attemptedWrong
  /\ writes = EmptyBag
  /\ history[1].solution_data = SolutionOnly(SessionText(1))

\* C7, for an answer accepted while no earlier update is on its way: the
\* update sent by the acceptance stores the stored completedSteps plus one.
C7_AcceptanceAddsOne ==
  [][(writes = EmptyBag /\ writes' # EmptyBag)
     => \A w \in BagToSet(writes') : w.data.completedSteps.v = PersistedCompleted + 1]_vars

\* the gateway answered the call with a success status and a message
UpstreamSucceeded == Served /\ forwarded # <<>> /\ gateway.kind \in {"text", "null_content"}

\* the message content is not structured data: it is no text at all, or a
\* text whose cleaned form JSON.parse rejects
ContentUnparseable ==
  \/ gateway.kind = "null_content"
  \/ gateway.kind = "text" /\ ~JSONparse(cleanedResponse(gateway.content)).ok

\* C11: when the gateway answers with a success status and the content of
\* its message cannot be parsed as structured data, the request is answered
\* 200 with a verdict (an object with a boolean correct and a string feedback).
C11_SoftRecovery ==
  (UpstreamSucceeded /\ ContentUnparseable)
  => response.status = 200 /\ IsGradingObject(response.body)

\* the question is still being processed
IsProcessing(q) == Get(q.solution_data, "status") = Defined("processing")

\* the questions with every one that is being processed replaced by one and
\* the same record, which shares none of its fields
Scrubbed(questions) ==
  [i \in 1..Len(questions) |->
     IF IsProcessing(questions[i])
     THEN [questions[i] EXCEPT !.problem_text = Defined(Repeat("z", MinEntryLength + 1)),
                               !.solution_mode = "similar",
                               !.solution_data = [Processing EXCEPT
                                                    !.solution = Defined(Repeat("y", 80))]]
     ELSE questions[i]]

C13_ProcessingXorSolution ==
  \A i \in 1..Len(history) :
    ~(history[i].solution_data.status = Defined("processing")
      /\ history[i].solution_data.solution.defined)

\* reached: the record inserted as 'processing' has been given its solution
\* by generateSolution and rewritten by saveProgress
C13_Witness ==
  \E k \in 1..Len(history) :
    /\ history[k].solution_data.solution \in {Defined(text) : text \in SessionTexts \cup {<<>>}}
    /\ history[k].solution_data.completedSteps.defined
    /\ history[k].solution_data.status = Undefined

\* the position of the first occurrence of step in the log, 0 without one
FirstAt(step) ==
  IF \E i \in 1..Len(fnLog) : fnLog[i] = step
  THEN CHOOSE i \in 1..Len(fnLog) : fnLog[i] = step /\ \A j \in 1..(i - 1) : fnLog[j] # step
  ELSE 0

\* C14: the gateway is called only for a request whose token resolved to a
\* user and whose body passed the schema, and only after getUser and
\* safeParse have run; a request failing either check causes no call.
C14_CallAfterChecks ==
  /\ (forwarded # <<>> \/ FirstAt("fetch") > 0)
       => /\ request.auth = "user"
          /\ SchemaAccepts(request.body)
          /\ forwarded # <<>>
          /\ 0 < FirstAt("getUser")
          /\ FirstAt("getUser") < FirstAt("safeParse")
          /\ FirstAt("safeParse") < FirstAt("fetch")
  /\ (request.method = "POST" /\ (request.auth # "user" \/ ~SchemaAccepts(request.body)))
       => forwarded = <<>> /\ FirstAt("fetch") = 0

\* reached: the call to the gateway is under way, both checks having passed
C14_Witness ==
  /\ fnPc = "fetch"
  /\ request.auth = "user"
  /\ SchemaAccepts(request.body)
  /\ fnLog = <<"getUser", "json", "safeParse", "fetch">>
  /\ forwarded = <<SchemaData(request.body)>>

\* C15: a request causes at most one call to the gateway, and when the
\* gateway answers with a status that is not a success the response is 500
\* with an error body, never a grading verdict.
C15_OneCallNoRetry ==
  /\ Len(forwarded) <= 1
  /\ Cardinality({i \in 1..Len(fnLog) : fnLog[i] = "fetch"}) <= 1
  /\ (Served /\ forwarded # <<>> /\ gateway.kind = "http_error")
       => /\ response.status = 500
          /\ response.body.t = "error"
          /\ ~IsGradingObject(response.body)

\* reached: the gateway has answered the one call with a failing status and
\* the request has been answered 500
C15_Witness ==
  /\ Served
  /\ gateway.kind = "http_error"
  /\ Len(forwarded) = 1
  /\ fnLog = <<"getUser", "json", "safeParse", "fetch">>
  /\ response.status = 500

\* an answer has been graded against the step's answer
LocallyGraded == grader.done /\ grader.toast # "none"

\* u occurs in s and is not empty
NonEmptyPartOf(u, s) ==
  /\ u # <<>>
  /\ \E i \in 1..Len(s), j \in 1..Len(s) : i <= j /\ SubSeq(s, i, j) = u

\* C16: the answer is accepted if and only if the two normalized strings are
\* equal or one of them is a non-empty substring of the other.
C16_AcceptedIffEqualOrContained ==
  LocallyGraded
  => (grader.toast = "Correct!"
      <=> \/ grader.userNormalized = grader.correctNormalized
          \/ NonEmptyPartOf(grader.userNormalized, grader.correctNormalized)
          \/ NonEmptyPartOf(grader.correctNormalized, grader.userNormalized))

\* reached: an answer accepted because the expected answer is part of it, and
\* not equal to it
C16_Witness ==
  /\ LocallyGraded
  /\ grader.toast = "Correct!"
  /\ grader.userNormalized # grader.correctNormalized
  /\ grader.correctNormalized # <<>>
  /\ Len(grader.userNormalized) > Len(grader.correctNormalized)

\* s without the punctuation characters it ends with
RECURSIVE StripTrailingPunctuation(_)
StripTrailingPunctuation(s) ==
  IF s # <<>> /\ s[Len(s)] \in Punctuation
  THEN StripTrailingPunctuation(SubSeq(s, 1, Len(s) - 1))
  ELSE s

\* C17: the normalized answer is the answer trimmed, lower-cased, without
\* its white space and without the punctuation it ends with; punctuation
\* elsewhere is kept. (Stated of the expected answer, which every step of
\* the inputs carries, and of a rejected answer, which stays in the field.)
C17_OnlyTrailingPunctuation ==
  LocallyGraded
  => /\ grader.correctNormalized =
          StripTrailingPunctuation(SelectSeq(toLowerCase(trim(grader.steps[1])),
                                             LAMBDA c : c \notin WhiteSpace))
     /\ grader.toast = "Not quite right"
          => grader.userNormalized =
               StripTrailingPunctuation(SelectSeq(toLowerCase(trim(grader.userAnswer)),
                                                  LAMBDA c : c \notin WhiteSpace))

\* C18: normalizing a normalized answer returns it unchanged.
C18_NormalizeIdempotent ==
  LocallyGraded
  => /\ normalizeAnswer(grader.userNormalized) = grader.userNormalized
     /\ normalizeAnswer(grader.correctNormalized) = grader.correctNormalized

\* reached: an answer whose normalization removed white space, a capital and
\* punctuation
C18_Witness ==
  /\ grader.done
  /\ grader.userAnswer = <<" ", "A", ".">>
  /\ grader.userNormalized = <<"a">>

\* a step as the fallback writes it
IsPlaceholder(step) == step.hint = FallbackHint /\ step.answer = FallbackAnswer

\* C19: the result is made of placeholder steps exactly when the pattern
\* matched zero times; with at least one match it holds one step per match,
\* the fields the captured texts trimmed, and no placeholder, also when a
\* field is empty once trimmed.
C19_FallbackIffNoMatch ==
  parsed
  => LET ms == execAll(stepRegex, solutionText, 1)
     IN IF ms = <<>>
        THEN /\ \A j \in 1..Len(parsedSteps) : IsPlaceholder(parsedSteps[j])
             /\ Len(parsedSteps) = (IF Len(NonBlankSrcLines) < 4 THEN Len(NonBlankSrcLines) ELSE 4)
        ELSE /\ Len(parsedSteps) = Len(ms)
             /\ \A j \in 1..Len(ms) :
                  /\ ~IsPlaceholder(parsedSteps[j])
                  /\ parsedSteps[j].instruction = trim(ms[j].caps[1])
                  /\ parsedSteps[j].hint = trim(ms[j].caps[2])
                  /\ parsedSteps[j].answer = trim(ms[j].caps[3])

\* reached: a text of lines that are not blank with one match, whose
\* instruction is empty once trimmed: the result is that one step
C19_Witness ==
  /\ parsed
  /\ Len(NonBlankSrcLines) >= 2
  /\ Len(execAll(stepRegex, solutionText, 1)) = 1
  /\ Len(parsedSteps) = 1
  /\ parsedSteps[1].instruction = <<>>
  /\ parsedSteps[1].hint = <<"h">>

\* C20: when the answer to a step that is not the last is accepted,
\* currentStep becomes the step's index plus one, which is one more than it
\* was, and userAnswer, showHint, attemptedWrong, wrongAttempts and
\* showAnswer take their initial values again.
C20_AcceptanceAdvancesAndResets ==
  [][(inflight.pc = "invoke" /\ inflight'.pc = "none" /\ toast' = "Correct!"
      /\ inflight.currentStep < Len(ui.steps) - 1)
     => /\ ui'.currentStep = ui.currentStep + 1
        /\ ui'.currentStep = inflight.currentStep + 1
        /\ ui'.userAnswer = InitialState(nav).userAnswer
        /\ ui'.showHint = InitialState(nav).showHint
        /\ ui'.attemptedWrong = InitialState(nav).attemptedWrong
        /\ ui'.wrongAttempts = InitialState(nav).wrongAttempts
        /\ ui'.showAnswer = InitialState(nav).showAnswer
        /\ ~ui'.showHint /\ ~ui'.showAnswer /\ ui'.userAnswer = <<>>]_vars

\* reached: the first of two steps has been accepted and the second is shown
\* with an empty field and nothing revealed
C20_Witness ==
  /\ page = "solution"
  /\ toast = "Correct!"
  /\ inflight.pc = "none"
  /\ Len(ui.steps) = 2
  /\ ui.currentStep = 1
  /\ ui.completedSteps = 1
  /\ ui.userAnswer = <<>>
  /\ ~ui.showHint /\ ~ui.attemptedWrong /\ ui.wrongAttempts = 0 /\ ~ui.showAnswer

\* C21: when the grader rejects an answer, currentStep, the local
\* completedSteps and the stored record (with the updates on their way) are
\* unchanged, wrongAttempts grows by exactly one and attemptedWrong is true.
C21_RejectionCountsOnly ==
  [][(inflight.pc = "invoke" /\ inflight'.pc = "none" /\ toast' = "Not quite right")
     => /\ ui'.currentStep = ui.currentStep
        /\ ui'.completedSteps = ui.completedSteps
        /\ history' = history
        /\ writes' = writes
        /\ ui'.wrongAttempts = ui.wrongAttempts + 1
        /\ ui'.attemptedWrong]_vars

\* reached: on the second step, after the first was accepted and stored, two
\* answers have been rejected
C21_Witness ==
  /\ page = "solution"
  /\ toast = "Not quite right"
  /\ inflight.pc = "none"
  /\ ui.currentStep = 1
  /\ ui.completedSteps = 1
  /\ PersistedCompleted = 1
  /\ ui.wrongAttempts = 2
  /\ ui.attemptedWrong

\* the study guide asked for from the History page has read its questions
GuideReadForHistory ==
  /\ hist.pc = "generating"
  /\ guide.pc \in {"fetch", "done"}
  /\ guide.questions # <<>>

\* C22: a study guide asked for with a selection is made from the selected
\* problems only: no problem outside the selection has an entry in the
\* context; asked for without one, it is made from all the user's problems.
C22_GuideFromSelection ==
  GuideReadForHistory
  => IF guide.request.questionIds.defined
     THEN \A i \in 1..Len(guide.questions) :
            EntryContent(guide.questions[i], i - 1) # <<>>
              => guide.questions[i].id \in guide.request.questionIds.v
     ELSE Ids(guide.questions) = Ids(hist.questions)

\* the user's step-by-step records all of whose steps have been completed
CompletedRecords ==
  {i \in 1..Len(history) :
     /\ history[i].user_id = stats.user
     /\ history[i].solution_mode = "step_by_step"
     /\ history[i].solution_data.solution.defined
     /\ LET total == Len(parseSteps(history[i].solution_data.solution.v))
        IN total > 0 /\ OrZero(history[i].solution_data.completedSteps) >= total}

\* C23: the 'Study Sessions' number is the number of the user's step-by-step
\* records whose completedSteps is at least their number of steps.
C23_StudySessionsCount ==
  stats.pc = "shown" => stats.studySessions = Cardinality(CompletedRecords)

\* the answer to the last step has just been accepted, all steps being
\* completed
AllStepsAccepted ==
  /\ page = "solution"
  /\ nav.mode = "step_by_step"
  /\ toast = "Correct!"
  /\ Len(ui.steps) >= 1
  /\ ui.completedSteps = Len(ui.steps)

\* C24: once the answer to every step has been accepted, the page comes to
\* show the 'Problem Completed' summary: currentStep reaches steps.length
\* (unless the user leaves the page first).
C24_CompletedViewReached ==
  AllStepsAccepted ~> (page # "solution" \/ ui.currentStep = Len(ui.steps))

\* C25: an update of saveProgress leaves the stored solution text as it was:
\* a record that held a solution text and now holds a completedSteps written
\* by saveProgress still holds that text.
C25_ProgressKeepsSolution ==
  [][\A i \in 1..Len(history) :
       (/\ Len(history') = Len(history)
        /\ history'[i] # history[i]
        /\ TruthyText(history[i].solution_data.solution)
        /\ history'[i].solution_data.completedSteps.defined)
       => history'[i].solution_data.solution = history[i].solution_data.solution]_vars

C27_StoredProgressMonotonic ==
  [][BagCardinality(writes') < BagCardinality(writes)
     => OrZero(history'[1].solution_data.completedSteps) >= PersistedCompleted]_vars

\* C28, for the write that stores the generated solution: the update of
\* generateSolution modifies exactly one record, that of its image and mode.
C28_WriteHitsOneRecord ==
  [][(gen.pc = "store" /\ gen'.pc = "none")
     => Cardinality({i \in 1..Len(history) :
                       /\ history[i].image_url = nav.imageUrl
                       /\ history[i].solution_mode = nav.mode}) = 1]_vars

\* C29: the selected ids are ids of questions the page holds.
C29_SelectionWithinQuestions ==
  hist.pc \in {"shown", "generating"} => hist.selectedQuestions \subseteq Ids(hist.questions)

\* C30: the questions read for a request are rows of the user who made it.
C30_ReadsOnlyCallersRows ==
  guide.pc \in {"fetch", "done"}
  => \A i \in 1..Len(guide.questions) : guide.questions[i].user_id = guide.request.caller

====
